---- MODULE Spec2Model ----
(***************************************************************************)
(* Fraud detection pipeline (src/model.py, FraudDetector) and the          *)
(* dashboard's filter section (src/app.py).                                *)
(*                                                                         *)
(* Money is counted in hundredths of a rupee so that the dashboard's       *)
(* int() truncation of an amount is visible.  The scorer (IsolationForest) *)
(* and the explainer (shap) are libraries: their outputs are drawn from    *)
(* bounded sets, with predict() = -1 exactly when decision_function() < 0. *)
(* Decision-function values are integers in an arbitrary small unit.       *)
(* Sequences are 1-based: row i of a pandas table is element i+1.          *)
(***************************************************************************)
EXTENDS Integers, Sequences, FiniteSets, TLC

\* ---------------------------------------------------------------- bounds
MaxRows == 2
MaxScore == 1
MaxShap == 1

\* ------------------------------------------------------------- constants
top_n == 3

\* A missing cell (numpy nan) of a numeric column, and of a text column.
NaN == 0 - 999999999

NaNText == "nan"

Abs(x) == IF x < 0 THEN 0 - x ELSE x

Min2(a, b) == IF a < b THEN a ELSE b

SeqMin(s) == CHOOSE x \in {s[i] : i \in DOMAIN s} : \A y \in {s[i] : i \in DOMAIN s} : x <= y

SeqMax(s) == CHOOSE x \in {s[i] : i \in DOMAIN s} : \A y \in {s[i] : i \in DOMAIN s} : x >= y

\* ------------------------------------------------------- the input table
feature_cols ==
    << "TransactionAmount", "TransactionType", "Location", "Channel", "DeviceID",
       "MerchantID", "CustomerAge", "CustomerOccupation", "TransactionDuration",
       "LoginAttempts", "AccountBalance", "TimeDiff" >>

NumFeatures == Len(feature_cols)

FeatureIndex(f) == CHOOSE i \in 1..NumFeatures : feature_cols[i] = f

CategoricalCols ==
    {"TransactionType", "Channel", "Location", "DeviceID", "MerchantID", "CustomerOccupation"}

\* The columns preprocess() reads from self.df.
PreprocessCols ==
    {"TransactionDate", "PreviousTransactionDate"}
        \cup ({feature_cols[i] : i \in 1..NumFeatures} \ {"TimeDiff"})

InputCols == PreprocessCols \cup {"TransactionID"}

AddedCols == {"AnomalyScore", "IsFraud", "FraudProbability", "FraudExplanation"}

\* Rows the uploaded file may hold.  Dates are seconds; amounts and balances
\* are hundredths of a rupee; NaN is a missing cell.
SampleRows ==
    { [TransactionID |-> "TX1", TransactionAmount |-> 20000050, TransactionType |-> "Debit",
       Location |-> "Mumbai", Channel |-> "Online", DeviceID |-> "D1", MerchantID |-> "M1",
       CustomerAge |-> 30, CustomerOccupation |-> "Student", TransactionDuration |-> 120,
       LoginAttempts |-> 5, AccountBalance |-> 50000,
       TransactionDate |-> 1000, PreviousTransactionDate |-> 970],
      [TransactionID |-> "TX2", TransactionAmount |-> 4000000, TransactionType |-> "Credit",
       Location |-> "Delhi", Channel |-> "ATM", DeviceID |-> "D2", MerchantID |-> "M2",
       CustomerAge |-> 55, CustomerOccupation |-> "Doctor", TransactionDuration |-> 40,
       LoginAttempts |-> 1, AccountBalance |-> 1000000,
       TransactionDate |-> 96400, PreviousTransactionDate |-> 86400],
      [TransactionID |-> "TX3", TransactionAmount |-> 6000075, TransactionType |-> "Debit",
       Location |-> "Delhi", Channel |-> "Online", DeviceID |-> "D1", MerchantID |-> "M2",
       CustomerAge |-> 41, CustomerOccupation |-> "Doctor", TransactionDuration |-> 75,
       LoginAttempts |-> 3, AccountBalance |-> NaN,
       TransactionDate |-> 180000, PreviousTransactionDate |-> 179900] }

\* The column sets an uploaded file may have: complete, or lacking one column.
SampleColumnSets ==
    { InputCols, InputCols \ {"AccountBalance"}, InputCols \ {"TransactionDate"},
      InputCols \ {"TransactionID"} }

\* Lexicographic order of the category labels (pandas sorts the categories).
CategoryOrder ==
    << "ATM", "Credit", "D1", "D2", "Debit", "Delhi", "Doctor", "M1", "M2", "Mumbai",
       "Online", "Student" >>

CategoryRank(v) == CHOOSE i \in 1..Len(CategoryOrder) : CategoryOrder[i] = v

VARIABLES
    df,               \* self.df: the input rows
    columns,          \* the columns of self.df
    X_raw,            \* self.X_raw: the unscaled feature rows
    scaler_fitted,    \* self.scaler has been fitted
    model_fitted,     \* self.model has been fitted
    scores,           \* predict()'s local scores
    preds,            \* predict()'s local preds
    AnomalyScore,     \* the four added columns, <<>> while absent
    IsFraud,
    FraudProbability,
    FraudExplanation,
    shap_values,      \* generate_explanations()'s shap_values, one per row of X
    explain_calls,    \* number of calls of generate_explanations()
    pc,               \* position in predict()
    error,            \* the exception that left predict(), or "none"
    dash              \* what the dashboard rendered last

vars ==
    << df, columns, X_raw, scaler_fitted, model_fitted, scores, preds, AnomalyScore,
       IsFraud, FraudProbability, FraudExplanation, shap_values, explain_calls, pc,
       error, dash >>

NumRows == Len(df)

NoDash == [shown |-> FALSE]

\* FraudDetector.__init__: the table is read, model and scaler are unfitted.
Init ==
    /\ df \in UNION {[1..n -> SampleRows] : n \in 1..MaxRows}
    /\ columns \in SampleColumnSets
    /\ X_raw = << >>
    /\ scaler_fitted = FALSE
    /\ model_fitted = FALSE
    /\ scores = << >>
    /\ preds = << >>
    /\ AnomalyScore = << >>
    /\ IsFraud = << >>
    /\ FraudProbability = << >>
    /\ FraudExplanation = << >>
    /\ shap_values = << >>
    /\ explain_calls = 0
    /\ pc = "preprocess"
    /\ error = "none"
    /\ dash = NoDash

\* ------------------------------------------------------------ preprocess
\* astype('category').cat.codes: the rank of the value among the distinct
\* values of the column in this batch, -1 for a missing value.
CatCode(col, v) ==
    IF v = NaNText THEN -1
    ELSE Cardinality({CategoryRank(df[i][col]) : i \in {j \in 1..NumRows : df[j][col] # NaNText}}
                        \cap (1..(CategoryRank(v) - 1)))

FillNa(v) == IF v = NaN THEN 0 ELSE v

TimeDiffOf(row) ==
    IF row.TransactionDate = NaN \/ row.PreviousTransactionDate = NaN
    THEN NaN
    ELSE row.TransactionDate - row.PreviousTransactionDate

FeatureValue(row, f) ==
    IF f = "TimeDiff" THEN TimeDiffOf(row)
    ELSE IF f \in CategoricalCols THEN CatCode(f, row[f])
    ELSE row[f]

FeatureRow(row) ==
    [f \in {feature_cols[i] : i \in 1..NumFeatures} |-> FillNa(FeatureValue(row, f))]

\* A column preprocess() indexes is absent: pandas raises KeyError.
MissingLookupTolerant(cols) == {"TransactionDate", "PreviousTransactionDate"} \ cols # {}

MissingLookup(cols) == PreprocessCols \ cols # {}

PreprocessFail ==
    /\ pc = "preprocess"
    /\ MissingLookup(columns)
    /\ error' = "KeyError"
    /\ pc' = "raised"
    /\ UNCHANGED << df, columns, X_raw, scaler_fitted, model_fitted, scores, preds,
                    AnomalyScore, IsFraud, FraudProbability, FraudExplanation,
                    shap_values, explain_calls, dash >>

PreprocessOk ==
    /\ pc = "preprocess"
    /\ ~MissingLookup(columns)
    /\ X_raw' = [i \in 1..NumRows |-> FeatureRow(df[i])]
    /\ scaler_fitted' = TRUE
    /\ pc' = "fit"
    /\ UNCHANGED << df, columns, model_fitted, scores, preds, AnomalyScore, IsFraud,
                    FraudProbability, FraudExplanation, shap_values, explain_calls,
                    error, dash >>

\* ------------------------------------------------------- fit and scoring
ScoreVals == (0 - MaxScore)..MaxScore

PredOf(s) == IF s < 0 THEN -1 ELSE 1

NumOutliers(sc) == Cardinality({i \in DOMAIN sc : sc[i] < 0})

\* self.model.fit(X_scaled); decision_function(X_scaled); predict(X_scaled),
\* with at most max_outliers rows under the decision boundary.
FitAndScoreWith(max_outliers) ==
    /\ pc = "fit"
    /\ model_fitted' = TRUE
    /\ \E sc \in [1..NumRows -> ScoreVals] :
          /\ NumOutliers(sc) <= max_outliers
          /\ scores' = sc
          /\ preds' = [i \in 1..NumRows |-> PredOf(sc[i])]
    /\ pc' = "label"
    /\ UNCHANGED << df, columns, X_raw, scaler_fitted, AnomalyScore, IsFraud,
                    FraudProbability, FraudExplanation, shap_values, explain_calls,
                    error, dash >>

FitAndScore == FitAndScoreWith(NumRows)

\* contamination=0.05 puts the boundary at the 5th percentile of the scores:
\* in a batch of at most 20 rows no more than one row lies under it.
FitAndScoreSmallBatch == FitAndScoreWith(1)

IsFraudOf(x) == IF x = -1 THEN 1 ELSE 0

Label ==
    /\ pc = "label"
    /\ AnomalyScore' = preds
    /\ IsFraud' = [i \in 1..NumRows |-> IsFraudOf(preds[i])]
    /\ columns' = columns \cup {"AnomalyScore", "IsFraud"}
    /\ pc' = "calibrate"
    /\ UNCHANGED << df, X_raw, scaler_fitted, model_fitted, scores, preds,
                    FraudProbability, FraudExplanation, shap_values, explain_calls,
                    error, dash >>

\* ----------------------------------------------------------- calibration
\* A probability is the fraction num/den; 0/0 is numpy's nan (the division
\* of arrays warns and does not raise).
NaNProb == [num |-> 0, den |-> 0]

Probability(s, score_min, score_max) ==
    IF score_max = score_min
    THEN NaNProb
    ELSE [num |-> (score_max - score_min) - (s - score_min),
          den |-> score_max - score_min]

IsNaNProb(p) == p.den = 0

InUnitInterval(p) == p.den > 0 /\ 0 <= p.num /\ p.num <= p.den

\* p >= q as floats compare: false when either is nan.
ProbGeq(p, q) == p.den > 0 /\ q.den > 0 /\ p.num * q.den >= q.num * p.den

Calibrate ==
    /\ pc = "calibrate"
    /\ FraudProbability' =
          [i \in 1..NumRows |-> Probability(scores[i], SeqMin(scores), SeqMax(scores))]
    /\ columns' = columns \cup {"FraudProbability"}
    /\ pc' = "explain"
    /\ UNCHANGED << df, X_raw, scaler_fitted, model_fitted, scores, preds, AnomalyScore,
                    IsFraud, FraudExplanation, shap_values, explain_calls, error, dash >>

\* ---------------------------------------------------------- explanations
friendly_names ==
    [f \in {feature_cols[i] : i \in 1..NumFeatures} |->
        CASE f = "TransactionAmount" -> "Transaction amount was high"
          [] f = "LoginAttempts" -> "Unusual number of login attempts"
          [] f = "AccountBalance" -> "Account balance was low"
          [] f = "TransactionDuration" -> "Transaction took unusually long"
          [] f = "TimeDiff" -> "Short time since previous transaction"
          [] f = "CustomerAge" -> "Customer age was uncommon for such activity"
          [] f = "Channel" -> "Unusual channel used"
          [] f = "Location" -> "Suspicious location detected"
          [] f = "CustomerOccupation" -> "Uncommon occupation for this transaction type"
          [] f = "DeviceID" -> "Unfamiliar device used"
          [] f = "MerchantID" -> "Unrecognized merchant"
          [] f = "TransactionType" -> "Unusual transaction type"]

RiskFeatures == {"TransactionAmount", "AccountBalance", "LoginAttempts", "TimeDiff"}

\* risk_flags[feature](val); amounts and balances are hundredths of a rupee.
RiskFlag(feature, val) ==
    CASE feature = "TransactionAmount" ->
            IF val > 100000 * 100 THEN "very high"
            ELSE IF val > 50000 * 100 THEN "high" ELSE "moderate"
      [] feature = "AccountBalance" ->
            IF val < 1000 * 100 THEN "very low"
            ELSE IF val < 5000 * 100 THEN "low" ELSE "sufficient"
      [] feature = "LoginAttempts" ->
            IF val >= 3 THEN "multiple failed" ELSE "normal"
      [] feature = "TimeDiff" ->
            IF val < 60 THEN "immediately after previous"
            ELSE IF val < 300 THEN "short interval" ELSE "normal delay"

\* One <li> of the narrative: description, the risk level in brackets ("" when
\* the feature has no risk flag) and the direction.
Bullet(idx, row_data, row_values) ==
    LET feature == feature_cols[idx]
        val == row_data[feature]
        impact == row_values[idx]
    IN  [feature |-> feature,
         description |-> friendly_names[feature],
         risk_level |-> IF feature \in RiskFeatures THEN RiskFlag(feature, val) ELSE "",
         direction |-> IF impact > 0 THEN "increased" ELSE "reduced"]

\* The features outside taken whose absolute contribution is the largest.
ArgMaxAbs(row_values, taken) ==
    { i \in (1..NumFeatures) \ taken :
        \A f \in (1..NumFeatures) \ taken : Abs(row_values[i]) >= Abs(row_values[f]) }

RECURSIVE DescendingPrefixes(_, _, _)
\* The sequences of k features in descending order of absolute contribution
\* that continue a prefix holding the features of taken.
DescendingPrefixes(row_values, k, taken) ==
    IF k = 0 \/ taken = 1..NumFeatures
    THEN { << >> }
    ELSE UNION { { << i >> \o t : t \in DescendingPrefixes(row_values, k - 1, taken \cup {i}) } :
                    i \in ArgMaxAbs(row_values, taken) }

\* abs(row_values).argsort()[::-1][:top_n].  argsort's default kind is an
\* unstable quicksort: equal keys come out in an order the numpy build decides,
\* so the first top_n of every descending order is a possible result.
TopIndexChoices(row_values) == DescendingPrefixes(row_values, top_n, {})

ExplanationHeader ==
    "The model flagged this transaction as fraudulent based on the following factors:"

EmptyExplanation == [header |-> "", bullets |-> << >>]

\* The text built for row i of X (0-based i is position i+1 here): the raw
\* values are read from self.X_raw.iloc[i].
ExplanationOf(i, row_values, top_indices) ==
    LET row_data == X_raw[i]
    IN  [header |-> ExplanationHeader,
         bullets |-> [j \in 1..Len(top_indices) |->
                         Bullet(top_indices[j], row_data, row_values)]]

\* The positions of the flagged rows, ascending (the index of the filtered table).
RECURSIVE FraudIndicesFrom(_)
FraudIndicesFrom(i) ==
    IF i > NumRows THEN << >>
    ELSE IF IsFraud[i] = 1 THEN << i >> \o FraudIndicesFrom(i + 1)
    ELSE FraudIndicesFrom(i + 1)

FraudIndices == FraudIndicesFrom(1)

PositionIn(seq, x) == CHOOSE k \in 1..Len(seq) : seq[k] = x

InSeq(seq, x) == \E k \in 1..Len(seq) : seq[k] = x

\* self.df['FraudExplanation'] = ""; self.df.loc[fraud_indices, ...] = explanations
AssignExplanationsReversed(fraud_indices, explanations) ==
    [r \in 1..NumRows |->
        IF InSeq(fraud_indices, r)
        THEN explanations[Len(explanations) + 1 - PositionIn(fraud_indices, r)]
        ELSE EmptyExplanation]

AssignExplanations(fraud_indices, explanations) ==
    [r \in 1..NumRows |->
        IF InSeq(fraud_indices, r)
        THEN explanations[PositionIn(fraud_indices, r)]
        ELSE EmptyExplanation]

\* Attribution vectors the explainer may return: nonzero only on ShapSupport.
ShapSupport ==
    { FeatureIndex("TransactionAmount"), FeatureIndex("CustomerAge"),
      FeatureIndex("AccountBalance"), FeatureIndex("TimeDiff") }

ShapVectors ==
    { [i \in 1..NumFeatures |-> IF i \in ShapSupport THEN w[i] ELSE 0] :
        w \in [ShapSupport -> (0 - MaxShap)..MaxShap] }

\* Two attribution vectors with three contributions of distinct magnitude.
ShapVectorsDistinct ==
    { [i \in 1..NumFeatures |->
          CASE i = FeatureIndex("TransactionAmount") -> 3
            [] i = FeatureIndex("LoginAttempts") -> 2
            [] i = FeatureIndex("AccountBalance") -> -1
            [] OTHER -> 0],
      [i \in 1..NumFeatures |->
          CASE i = FeatureIndex("TimeDiff") -> 3
            [] i = FeatureIndex("AccountBalance") -> 2
            [] i = FeatureIndex("CustomerAge") -> -1
            [] OTHER -> 0] }

RECURSIVE TopIndicesOfRows(_, _)
\* One choice of top_indices for each of the first n rows of X.
TopIndicesOfRows(sv, n) ==
    IF n = 0 THEN { << >> }
    ELSE { Append(p, t) : p \in TopIndicesOfRows(sv, n - 1), t \in TopIndexChoices(sv[n]) }

\* if fraud_indices:
HasFraudsAlways(fraud_indices) == TRUE

HasFrauds(fraud_indices) == fraud_indices # << >>

\* ... generate_explanations(X_fraud_scaled) ... with the explainer's vectors
\* drawn from Family.
ExplainFlaggedWith(Family) ==
    /\ pc = "explain"
    /\ HasFrauds(FraudIndices)
    /\ LET fraud_indices == FraudIndices
           n == Len(fraud_indices)
       IN  \E sv \in [1..n -> Family] :
             \E tops \in TopIndicesOfRows(sv, n) :
               /\ shap_values' = sv
               /\ FraudExplanation' =
                     AssignExplanations(fraud_indices,
                         [k \in 1..n |-> ExplanationOf(k, sv[k], tops[k])])
    /\ explain_calls' = explain_calls + 1
    /\ columns' = columns \cup {"FraudExplanation"}
    /\ pc' = "done"
    /\ UNCHANGED << df, X_raw, scaler_fitted, model_fitted, scores, preds, AnomalyScore,
                    IsFraud, FraudProbability, error, dash >>

ExplainFlagged == ExplainFlaggedWith(ShapVectorsDistinct)

ExplainFlaggedAnyShap == ExplainFlaggedWith(ShapVectors)

\* else: self.df['FraudExplanation'] = ""
NoFraud ==
    /\ pc = "explain"
    /\ ~HasFrauds(FraudIndices)
    /\ FraudExplanation' = [r \in 1..NumRows |-> EmptyExplanation]
    /\ columns' = columns \cup {"FraudExplanation"}
    /\ pc' = "done"
    /\ UNCHANGED << df, X_raw, scaler_fitted, model_fitted, scores, preds, AnomalyScore,
                    IsFraud, FraudProbability, shap_values, explain_calls, error, dash >>

Next ==
    \/ PreprocessFail
    \/ PreprocessOk
    \/ FitAndScore
    \/ Label
    \/ Calibrate
    \/ ExplainFlagged
    \/ NoFraud

Spec == Init /\ [][Next]_vars

\* The pipeline on small batches with every attribution vector of ShapVectors.
NextExplain ==
    \/ PreprocessFail
    \/ PreprocessOk
    \/ FitAndScoreSmallBatch
    \/ Label
    \/ Calibrate
    \/ ExplainFlaggedAnyShap
    \/ NoFraud

SpecExplain == Init /\ [][NextExplain]_vars

\* ------------------------------------------------------------- dashboard
\* frauds = result[result['IsFraud'] == 1], as positions of result.
Frauds == FraudIndices

SeqToSet(seq) == {seq[k] : k \in 1..Len(seq)}

\* int(x) of a non-negative amount held in hundredths.
IntPart(a) == a \div 100

\* .dt.date of a timestamp held in seconds: the day number.
DateOf(t) == t \div 86400

SetMin(S) == CHOOSE x \in S : \A y \in S : x <= y

SetMax(S) == CHOOSE x \in S : \A y \in S : x >= y

RECURSIVE SelectRows(_, _, _)
\* The rows of a table (a sequence of positions) that lie in keep, in order.
SelectRows(rows, k, keep) ==
    IF k > Len(rows) THEN << >>
    ELSE IF rows[k] \in keep THEN << rows[k] >> \o SelectRows(rows, k + 1, keep)
    ELSE SelectRows(rows, k + 1, keep)

\* Lines 112-123: the filters applied to a copy of frauds.
ApplyFilters(frauds, type_sel, loc_sel, channel_sel, amt_range, start_date, end_date) ==
    LET KeepType == {r \in 1..NumRows : df[r].TransactionType = type_sel}
        KeepLoc == {r \in 1..NumRows : df[r].Location \in loc_sel}
        KeepChannel == {r \in 1..NumRows : df[r].Channel \in channel_sel}
        KeepRange ==
            {r \in 1..NumRows :
                /\ df[r].TransactionAmount >= amt_range[1] * 100
                /\ df[r].TransactionAmount <= amt_range[2] * 100
                /\ DateOf(df[r].TransactionDate) >= start_date
                /\ DateOf(df[r].TransactionDate) <= end_date}
        f1 == IF type_sel # "All" THEN SelectRows(frauds, 1, KeepType) ELSE frauds
        f2 == IF "All" \notin loc_sel THEN SelectRows(f1, 1, KeepLoc) ELSE f1
        f3 == IF "All" \notin channel_sel THEN SelectRows(f2, 1, KeepChannel) ELSE f2
    IN  SelectRows(f3, 1, KeepRange)

\* generate_pdf: export_df = df[export_cols] raises KeyError when one of the
\* always-included columns is absent; otherwise every row of df is written.
PdfRaises(cols) ==
    {"TransactionID", "TransactionAmount", "TransactionDate", "FraudProbability"} \ cols # {}

\* The number in "N Fraudulent Transactions Found" (line 126).
HeadingCount(filtered) == Len(filtered) + 1

\* One run of the script with frauds found (lines 62-131): the widgets hold a
\* selection, the filters are applied, heading, table and PDF are produced.
DashboardRender ==
    /\ pc = "done"
    /\ error = "none"
    /\ ~dash.shown
    /\ Frauds # << >>
    /\ LET frauds == Frauds
           types == {df[r].TransactionType : r \in SeqToSet(frauds)}
           locs == {df[r].Location : r \in SeqToSet(frauds)}
           channels == {df[r].Channel : r \in SeqToSet(frauds)}
           min_amt == IntPart(SetMin({df[r].TransactionAmount : r \in SeqToSet(frauds)}))
           max_amt == IntPart(SetMax({df[r].TransactionAmount : r \in SeqToSet(frauds)}))
           min_date == SetMin({DateOf(df[r].TransactionDate) : r \in SeqToSet(frauds)})
           max_date == SetMax({DateOf(df[r].TransactionDate) : r \in SeqToSet(frauds)})
       IN  \E type_sel \in types \cup {"All"} :
           \E loc_sel \in SUBSET (locs \cup {"All"}) :
           \E channel_sel \in SUBSET (channels \cup {"All"}) :
           \E lo \in {min_amt, max_amt} : \E hi \in {min_amt, max_amt} :
           \E start_date \in min_date..max_date : \E end_date \in min_date..max_date :
              /\ lo <= hi
              /\ LET filtered == ApplyFilters(frauds, type_sel, loc_sel, channel_sel,
                                              << lo, hi >>, start_date, end_date)
                 IN  dash' = [shown |-> TRUE,
                              warning |-> "",
                              selection |-> [type_sel |-> type_sel, loc_sel |-> loc_sel,
                                             channel_sel |-> channel_sel,
                                             amt_range |-> << lo, hi >>,
                                             start_date |-> start_date,
                                             end_date |-> end_date],
                              filtered |-> filtered,
                              heading |-> HeadingCount(filtered),
                              table |-> filtered,
                              pdf |-> IF PdfRaises(columns) THEN << >> ELSE filtered,
                              pdf_error |-> IF PdfRaises(columns) THEN "KeyError"
                                            ELSE "none"]
    /\ UNCHANGED << df, columns, X_raw, scaler_fitted, model_fitted, scores, preds,
                    AnomalyScore, IsFraud, FraudProbability, FraudExplanation,
                    shap_values, explain_calls, pc, error >>

\* else: st.warning("No frauds detected in the uploaded dataset.") (line 225)
DashboardNoFrauds ==
    /\ pc = "done"
    /\ error = "none"
    /\ ~dash.shown
    /\ Frauds = << >>
    /\ dash' = [shown |-> TRUE, warning |-> "No frauds detected in the uploaded dataset."]
    /\ UNCHANGED << df, columns, X_raw, scaler_fitted, model_fitted, scores, preds,
                    AnomalyScore, IsFraud, FraudProbability, FraudExplanation,
                    shap_values, explain_calls, pc, error >>

NextApp ==
    \/ PreprocessFail
    \/ PreprocessOk
    \/ FitAndScore
    \/ Label
    \/ Calibrate
    \/ ExplainFlagged
    \/ NoFraud
    \/ DashboardRender
    \/ DashboardNoFrauds

SpecApp == Init /\ [][NextApp]_vars

\* ---------------------------------------------------------------- claims
Returned == pc = "done"

Rows == 1..NumRows

Flagged == {r \in Rows : preds[r] = -1}

\* The position of flagged row r in the flagged sub-matrix X.
RankOf(r) == Cardinality({q \in 1..r : preds[q] = -1})

NonzeroCount(v) == Cardinality({i \in 1..NumFeatures : v[i] # 0})

BulletIndex(b) == FeatureIndex(b.feature)

\* C1: after predict() every row's FraudProbability lies in [0,1] and is
\* monotonically inverse to the raw score: score(a) <= score(b) implies
\* FraudProbability(a) >= FraudProbability(b).
C1_ProbabilityBoundedMonotone ==
    Returned =>
        /\ \A a \in Rows : InUnitInterval(FraudProbability[a])
        /\ \A a, b \in Rows :
              scores[a] <= scores[b] => ProbGeq(FraudProbability[a], FraudProbability[b])

\* C2: when all raw scores of the batch are equal, predict() raises no error
\* and every row gets a defined fallback FraudProbability in [0,1], never nan.
C2_DegenerateFallback ==
    (Returned /\ SeqMax(scores) = SeqMin(scores)) =>
        /\ error = "none"
        /\ \A r \in Rows :
              ~IsNaNProb(FraudProbability[r]) /\ InUnitInterval(FraudProbability[r])

\* C3: for every flagged row r, the severity bucket in each bullet of r's
\* FraudExplanation is computed from r's own raw feature value.
C3_SeverityFromOwnRow ==
    Returned =>
        \A r \in Flagged :
            \A j \in 1..Len(FraudExplanation[r].bullets) :
                LET b == FraudExplanation[r].bullets[j]
                IN  b.feature \in RiskFeatures =>
                        b.risk_level = RiskFlag(b.feature, X_raw[r][b.feature])

\* C4: after predict() IsFraud is 1 exactly on the rows whose outlier decision
\* is -1, unflagged rows have an empty FraudExplanation, and a flagged row has
\* the non-empty explanation built from that row's own attribution vector.
C4_FlagsAndExplanations ==
    Returned =>
        \A r \in Rows :
            /\ IsFraud[r] \in {0, 1}
            /\ IsFraud[r] = 1 <=> preds[r] = -1
            /\ IsFraud[r] = 0 => FraudExplanation[r] = EmptyExplanation
            /\ IsFraud[r] = 1 =>
                  LET e == FraudExplanation[r]
                      v == shap_values[RankOf(r)]
                  IN  /\ e # EmptyExplanation
                      /\ e.header = ExplanationHeader
                      /\ [j \in 1..Len(e.bullets) |-> BulletIndex(e.bullets[j])]
                            \in TopIndexChoices(v)
                      /\ \A j \in 1..Len(e.bullets) :
                            e.bullets[j].direction = "increased"
                                <=> v[BulletIndex(e.bullets[j])] > 0

\* A returned batch of two rows with different attributions, both flagged.
C4_Witness ==
    /\ Returned
    /\ NumRows >= 2
    /\ IsFraud[1] = 1
    /\ IsFraud[2] = 1
    /\ shap_values[1] # shap_values[2]
    /\ FraudExplanation[2] # EmptyExplanation

\* C5: each row's AnomalyScore in the Result Table is the raw
\* decision-function value of that row, the score FraudProbability is computed
\* from, not the binary outlier label.
C5_AnomalyScoreIsRawScore ==
    Returned => \A r \in Rows : AnomalyScore[r] = scores[r]

C7_BulletCount ==
    Returned =>
        \A r \in Flagged :
            LET bullets == FraudExplanation[r].bullets
                v == shap_values[RankOf(r)]
            IN  /\ Len(bullets) = Min2(top_n, NonzeroCount(v))
                /\ \A j \in 1..Len(bullets) : v[BulletIndex(bullets[j])] # 0

\* C8: a batch with no flagged row is a normal outcome: generate_explanations
\* is never called on an empty sub-matrix, predict() returns without error the
\* full table with IsFraud 0 and an empty FraudExplanation on every row; with
\* a flagged row, generate_explanations is called exactly once.
C8_ZeroFlagOutcome ==
    /\ explain_calls \in {0, 1}
    /\ explain_calls = 1 => (Flagged # {} /\ Len(shap_values) = Cardinality(Flagged))
    /\ Returned =>
          /\ error = "none"
          /\ AddedCols \subseteq columns
          /\ Len(IsFraud) = NumRows /\ Len(FraudExplanation) = NumRows
          /\ Flagged = {} =>
                /\ explain_calls = 0
                /\ \A r \in Rows :
                      IsFraud[r] = 0 /\ FraudExplanation[r] = EmptyExplanation
          /\ Flagged # {} => explain_calls = 1

\* predict() has returned a batch of two rows, none of them flagged.
C8_Witness ==
    /\ Returned
    /\ NumRows >= 2
    /\ Flagged = {}
    /\ explain_calls = 0

\* C9: the bullets of a flagged row are the top_n features by descending
\* absolute contribution, in that order, and of two features with equal
\* absolute contribution the one earlier in feature_cols ranks first.
C9_TopNStableOrder ==
    Returned =>
        \A r \in Flagged :
            LET bullets == FraudExplanation[r].bullets
                v == shap_values[RankOf(r)]
                Before(f, g) ==
                    \/ Abs(v[f]) > Abs(v[g])
                    \/ Abs(v[f]) = Abs(v[g]) /\ f < g
                chosen == {BulletIndex(bullets[j]) : j \in 1..Len(bullets)}
            IN  /\ Len(bullets) = Min2(top_n, NumFeatures)
                /\ \A a, b \in 1..Len(bullets) :
                      a < b => Before(BulletIndex(bullets[a]), BulletIndex(bullets[b]))
                /\ \A f \in (1..NumFeatures) \ chosen : \A g \in chosen : Before(g, f)

\* C10: the number in the heading "N Fraudulent Transactions Found" is the
\* number of rows of the filtered table that is displayed and passed to
\* generate_pdf, for every filter selection.
C10_HeadingMatchesFiltered ==
    (dash.shown /\ dash.warning = "") =>
        /\ dash.heading = Len(dash.filtered)
        /\ dash.table = dash.filtered
        /\ dash.pdf_error = "none" => dash.pdf = dash.filtered

====
